---- MODULE Spec2Model ----
(***************************************************************************)
(* Model of streamlit_app.py: "Option 2 Extended: Celebrity + Faction +    *)
(* Large-Faction Scaling".  One run of main() after both files have been   *)
(* uploaded: parse the factions, parse and filter the personas, compute    *)
(* the probability of every ordered pair of personas, then either draw a   *)
(* concrete graph at random and rank the actual in-degrees, or rank the    *)
(* expected in-degrees.                                                    *)
(*                                                                         *)
(* Numbers.  The program computes with floats.  The model computes in      *)
(* fixed point: a probability x is the integer x * ONE, a quotient is      *)
(* truncated.  TwFollowers are whole numbers.  The exponent slider is      *)
(* modelled at its positions 0.0, 0.5 and 1.0, written in halves (0, 1,    *)
(* 2), so that fac_size ** exponent is 1, a square root, or fac_size.      *)
(* The display name of a persona is carried nowhere but into the tables    *)
(* and is left out.                                                        *)
(***************************************************************************)
EXTENDS Integers, Sequences, FiniteSets, TLC

VARIABLES
    df_factions,     \* rows of the factions sheet (list cells already split)
    df_personas,     \* rows of the personas sheet
    alpha,           \* celebrity weight slider, fixed point
    exponent,        \* faction size exponent slider, in halves
    do_random_draw,  \* the checkbox
    pc,              \* position of the run in main()
    faction_info,    \* faction name -> parsed row
    personas,        \* personas kept after filtering
    faction_sizes,   \* faction name -> number of kept personas
    max_tw,          \* largest TwFollowers, or 1; 0 while not computed
    edges_prob,      \* one record per ordered pair of distinct personas
    i,               \* position of the draw loop in edges_prob
    u,               \* the value random.random() returned for the last edge
    chosen_edges,    \* edges realized by the draw
    in_counter,      \* handle -> number of realized inbound edges
    df_in_deg,       \* the actual in-degree table, as displayed
    df_in,           \* the expected in-degree table, as displayed
    st               \* what the run wrote to the page, in order

vars == <<df_factions, df_personas, alpha, exponent, do_random_draw, pc,
          faction_info, personas, faction_sizes, max_tw, edges_prob, i, u,
          chosen_edges, in_counter, df_in_deg, df_in, st>>

inputs == <<df_factions, df_personas, alpha, exponent, do_random_draw>>

----------------------------------------------------------------------------
(* Bounds and numbers *)

\* the float 1.0 in fixed point
ONE == 1000

\* most rows in the personas sheet
MaxPersonas == 3

\* largest TwFollowers value in the personas sheet
MaxTw == 2

PROB_MAP ==
    [l \in {"High", "Moderate", "Low", "None"} |->
        CASE l = "High"     -> (9 * ONE) \div 10
          [] l = "Moderate" -> (5 * ONE) \div 10
          [] l = "Low"      -> (3 * ONE) \div 10
          [] l = "None"     -> 0]

\* PROB_MAP.get(label, 0.0)
ProbOfLabel(label) == IF label \in DOMAIN PROB_MAP THEN PROB_MAP[label] ELSE 0

NoMap == [x \in {} |-> 0]

Last(s) == s[Len(s)]

RECURSIVE Bisect(_, _, _)
\* largest r in lo..hi with r * r <= x, given lo * lo <= x < (hi + 1) * (hi + 1)
Bisect(lo, hi, x) ==
    IF lo = hi THEN lo
    ELSE LET mid == (lo + hi + 1) \div 2
         IN  IF mid * mid <= x THEN Bisect(mid, hi, x) ELSE Bisect(lo, mid - 1, x)

RECURSIVE IntPow(_, _)
IntPow(b, k) == IF k = 0 THEN 1 ELSE b * IntPow(b, k - 1)

\* fac_size ** exponent in fixed point, the exponent in halves
Power(fac_size, halves) == Bisect(0, fac_size * ONE, IntPow(fac_size, halves) * ONE * ONE)

----------------------------------------------------------------------------
(* 2) Parse Factions *)

FactionRecord(row) ==
    [ignore     |-> (row.Ignore = 1),
     intra_prob |-> ProbOfLabel(row.IntraFaction),
     fHigh      |-> row.Following,
     fMod       |-> row.MayFollow,
     fNever     |-> row.NeverFollow]

RECURSIVE BuildFactionInfo(_, _)
\* faction_info[fac_name] = {...} row by row: a later row of the same name wins
BuildFactionInfo(rows, info) ==
    IF rows = <<>> THEN info
    ELSE LET row == Head(rows)
         IN  BuildFactionInfo(Tail(rows),
                 [f \in (DOMAIN info) \cup {row.Faction} |->
                     IF f = row.Faction THEN FactionRecord(row) ELSE info[f]])

ParseFactions ==
    /\ pc = "factions"
    /\ faction_info' = BuildFactionInfo(df_factions, NoMap)
    /\ pc' = "personas"
    /\ UNCHANGED <<inputs, personas, faction_sizes, max_tw, edges_prob, i, u,
                   chosen_edges, in_counter, df_in_deg, df_in, st>>

----------------------------------------------------------------------------
(* 3) Parse Personas *)

\* skip if faction is ignored or not found
Kept(row) ==
    /\ row.Faction \in DOMAIN faction_info
    /\ ~faction_info[row.Faction].ignore

PersonaRecordHandleFromFaction(row) ==
    [handle |-> row.Faction, faction |-> row.Faction, tw |-> row.TwFollowers]

PersonaRecord(row) ==
    [handle |-> row.Handle, faction |-> row.Faction, tw |-> row.TwFollowers]

RECURSIVE BuildPersonas(_)
BuildPersonas(rows) ==
    IF rows = <<>> THEN <<>>
    ELSE IF Kept(Head(rows))
         THEN <<PersonaRecord(Head(rows))>> \o BuildPersonas(Tail(rows))
         ELSE BuildPersonas(Tail(rows))

ParsePersonas ==
    /\ pc = "personas"
    /\ personas' = BuildPersonas(df_personas)
    /\ pc' = "count"
    /\ UNCHANGED <<inputs, faction_info, faction_sizes, max_tw, edges_prob, i, u,
                   chosen_edges, in_counter, df_in_deg, df_in, st>>

Shown(what, n) == [what |-> what, n |-> n]

ReportCount ==
    /\ pc = "count"
    /\ st' = Append(st, Shown("Total personas after ignoring", Len(personas)))
    /\ pc' = "check"
    /\ UNCHANGED <<inputs, faction_info, personas, faction_sizes, max_tw,
                   edges_prob, i, u, chosen_edges, in_counter, df_in_deg, df_in>>

NoPersonasNeverStops(ps) == FALSE

\* if not personas
NoPersonas(ps) == ps = <<>>

Stop ==
    /\ pc = "check"
    /\ NoPersonas(personas)
    /\ pc' = "stopped"
    /\ UNCHANGED <<inputs, faction_info, personas, faction_sizes, max_tw,
                   edges_prob, i, u, chosen_edges, in_counter, df_in_deg, df_in, st>>

----------------------------------------------------------------------------
(* Lookups: faction sizes and the largest TwFollowers *)

FactionSizes(ps) ==
    [f \in {ps[k].faction : k \in DOMAIN ps} |->
        Cardinality({k \in DOMAIN ps : ps[k].faction = f})]

\* max(p["tw"] for p in personas) or 1.0
MaxTwOf(ps) ==
    LET m == CHOOSE x \in {ps[k].tw : k \in DOMAIN ps} :
                 \A k \in DOMAIN ps : ps[k].tw <= x
    IN  IF m = 0 THEN 1 ELSE m

\* max() of an empty sequence raises ValueError
BuildLookups ==
    /\ pc = "check"
    /\ ~NoPersonas(personas)
    /\ IF personas = <<>>
       THEN /\ pc' = "error"
            /\ UNCHANGED <<faction_sizes, max_tw>>
       ELSE /\ faction_sizes' = FactionSizes(personas)
            /\ max_tw' = MaxTwOf(personas)
            /\ pc' = "edges"
    /\ UNCHANGED <<inputs, faction_info, personas, edges_prob, i, u,
                   chosen_edges, in_counter, df_in_deg, df_in, st>>

----------------------------------------------------------------------------
(* Helper: get base faction prob *)

get_faction_prob_HighFirst(fA, fB) ==
    IF fA = fB THEN faction_info[fA].intra_prob
    ELSE LET infoB == faction_info[fB]
         IN  IF fA \in infoB.fHigh THEN (9 * ONE) \div 10
             ELSE IF fA \in infoB.fNever THEN 0
             ELSE IF fA \in infoB.fMod THEN (5 * ONE) \div 10
             ELSE 0

\* the 'base' probability that A's faction follows B's faction
get_faction_prob(fA, fB) ==
    IF fA = fB THEN faction_info[fA].intra_prob
    ELSE LET infoB == faction_info[fB]
         IN  IF fA \in infoB.fNever THEN 0
             ELSE IF fA \in infoB.fHigh THEN (9 * ONE) \div 10
             ELSE IF fA \in infoB.fMod THEN (5 * ONE) \div 10
             ELSE 0

----------------------------------------------------------------------------
(* 4) Compute final edge probabilities *)

SamePersonaNeverSkips(A, B) == FALSE

\* if A["handle"] == B["handle"]: continue
SamePersona(A, B) == A.handle = B.handle

\* alpha * (B["tw"] / max_tw)
Celebrity(B) == (alpha * ((B.tw * ONE) \div max_tw)) \div ONE

ScaleFactorNegatedExponent(fac_size) == (ONE * ONE) \div Power(fac_size, exponent)

\* fac_size ** exponent
ScaleFactor(fac_size) == Power(fac_size, exponent)

ScaledSameFactionOnly(A, B) ==
    LET base_f   == get_faction_prob(A.faction, B.faction)
        fac_size == faction_sizes[A.faction]
    IN  IF A.faction = B.faction /\ fac_size > 1 /\ base_f > 0 /\ exponent > 0
        THEN (base_f * ONE) \div ScaleFactor(fac_size)
        ELSE base_f

ScaledFromSizeThree(A, B) ==
    LET base_f   == get_faction_prob(A.faction, B.faction)
        fac_size == faction_sizes[A.faction]
    IN  IF fac_size > 2 /\ base_f > 0 /\ exponent > 0
        THEN (base_f * ONE) \div ScaleFactor(fac_size)
        ELSE base_f

\* 3) Scale down if faction A is large
Scaled(A, B) ==
    LET base_f   == get_faction_prob(A.faction, B.faction)
        fac_size == faction_sizes[A.faction]
    IN  IF fac_size > 1 /\ base_f > 0 /\ exponent > 0
        THEN (base_f * ONE) \div ScaleFactor(fac_size)
        ELSE base_f

\* 4) Union
Union(p_celeb, base_f) == ONE - ((ONE - p_celeb) * (ONE - base_f)) \div ONE

EdgeRecord(A, B) ==
    [source           |-> A.handle,
     target           |-> B.handle,
     p_celeb          |-> Celebrity(B),
     p_faction_raw    |-> get_faction_prob(A.faction, B.faction),
     p_faction_scaled |-> Scaled(A, B),
     p_final          |-> Union(Celebrity(B), Scaled(A, B))]

RECURSIVE EdgesFrom(_, _, _)
\* for A in personas: for B in personas: ... from the pair (a, b) on
EdgesFrom(ps, a, b) ==
    IF a > Len(ps) THEN <<>>
    ELSE IF b > Len(ps) THEN EdgesFrom(ps, a + 1, 1)
    ELSE IF SamePersona(ps[a], ps[b]) THEN EdgesFrom(ps, a, b + 1)
    ELSE <<EdgeRecord(ps[a], ps[b])>> \o EdgesFrom(ps, a, b + 1)

ComputeEdges ==
    /\ pc = "edges"
    /\ edges_prob' = EdgesFrom(personas, 1, 1)
    /\ pc' = "branch"
    /\ UNCHANGED <<inputs, faction_info, personas, faction_sizes, max_tw, i, u,
                   chosen_edges, in_counter, df_in_deg, df_in, st>>

----------------------------------------------------------------------------
(* 5) Display + Random Draw *)

\* the values random.random() is let to return: the least, a middle one, the
\* greatest below 1.0
Draws == {0, ONE \div 2, ONE - 1}

Handles == {personas[k].handle : k \in DOMAIN personas}

\* handle2fac = {p["handle"]: p["faction"] for p in personas}
handle2fac ==
    [h \in Handles |-> (CHOOSE p \in {personas[k] : k \in DOMAIN personas} : p.handle = h).faction]

\* chosen_edges = []; in_counter = Counter()
StartDraw ==
    /\ pc = "branch"
    /\ do_random_draw
    /\ chosen_edges' = <<>>
    /\ in_counter' = [h \in Handles |-> 0]
    /\ i' = 1
    /\ pc' = "draw"
    /\ UNCHANGED <<inputs, faction_info, personas, faction_sizes, max_tw,
                   edges_prob, u, df_in_deg, df_in, st>>

RealizedOrEqual(draw, e) == draw <= e.p_final

RealizedByFaction(draw, e) == draw < e.p_faction_scaled

\* if random.random() < e["p_final"]
Realized(draw, e) == draw < e.p_final

\* in_counter[e["target"]] += 1
Counted(e) == e.target

DrawEdge ==
    /\ pc = "draw"
    /\ i <= Len(edges_prob)
    /\ \E draw \in Draws :
        LET e == edges_prob[i]
        IN  /\ u' = draw
            /\ IF Realized(draw, e)
               THEN /\ chosen_edges' = Append(chosen_edges, e)
                    /\ in_counter' = [in_counter EXCEPT ![Counted(e)] = @ + 1]
               ELSE UNCHANGED <<chosen_edges, in_counter>>
    /\ i' = i + 1
    /\ UNCHANGED <<inputs, pc, faction_info, personas, faction_sizes, max_tw,
                   edges_prob, df_in_deg, df_in, st>>

EndDraw ==
    /\ pc = "draw"
    /\ i > Len(edges_prob)
    /\ st' = Append(st, Shown("Random-draw edges", Len(chosen_edges)))
    /\ u' = 0
    /\ pc' = "in_deg"
    /\ UNCHANGED <<inputs, faction_info, personas, faction_sizes, max_tw,
                   edges_prob, i, chosen_edges, in_counter, df_in_deg, df_in>>

SortValuesAscending(rows, keys) ==
    {t \in {[k \in DOMAIN rows |-> rows[p[k]]] : p \in Permutations(DOMAIN rows)} :
        \A j, k \in DOMAIN t : j < k => keys[t[j].handle] <= keys[t[k].handle]}

\* DataFrame.sort_values(by, ascending=False), keys being the column sorted by,
\* read by handle: the default kind is quicksort, which keeps no order among
\* equal keys, so every descending arrangement of the rows is a possible result
SortValues(rows, keys) ==
    {t \in {[k \in DOMAIN rows |-> rows[p[k]]] : p \in Permutations(DOMAIN rows)} :
        \A j, k \in DOMAIN t : j < k => keys[t[j].handle] >= keys[t[k].handle]}

InDegreeRow(p) ==
    [handle |-> p.handle, faction |-> handle2fac[p.handle],
     in_degree |-> in_counter[p.handle]]

InDegreeTable ==
    /\ pc = "in_deg"
    /\ \E t \in SortValues([k \in DOMAIN personas |-> InDegreeRow(personas[k])],
                           in_counter) :
        df_in_deg' = t
    /\ st' = st \o <<Shown("In-Degree (Actual)", Len(personas)),
                     Shown("Showing first 500 edges", Len(chosen_edges))>>
    /\ pc' = "download"
    /\ UNCHANGED <<inputs, faction_info, personas, faction_sizes, max_tw,
                   edges_prob, i, u, chosen_edges, in_counter, df_in>>

ShowProb ==
    /\ pc = "branch"
    /\ ~do_random_draw
    /\ st' = Append(st, Shown("Probabilistic Edges (No Random Draw)", Len(edges_prob)))
    /\ pc' = "expected"
    /\ UNCHANGED <<inputs, faction_info, personas, faction_sizes, max_tw,
                   edges_prob, i, u, chosen_edges, in_counter, df_in_deg, df_in>>

RECURSIVE InSum(_, _)
\* in_sum[e["target"]] += e["p_final"], for the target h
InSum(es, h) ==
    IF es = <<>> THEN 0
    ELSE (IF Head(es).target = h THEN Head(es).p_final ELSE 0) + InSum(Tail(es), h)

ExpectedRow(p) ==
    [handle |-> p.handle, faction |-> handle2fac[p.handle],
     expected_in_degree |-> InSum(edges_prob, p.handle)]

ExpectedInDegree ==
    /\ pc = "expected"
    /\ \E t \in SortValues([k \in DOMAIN personas |-> ExpectedRow(personas[k])],
                           [h \in Handles |-> InSum(edges_prob, h)]) :
        df_in' = t
    /\ st' = Append(st, Shown("Expected In-Degree", Len(personas)))
    /\ pc' = "download"
    /\ UNCHANGED <<inputs, faction_info, personas, faction_sizes, max_tw,
                   edges_prob, i, u, chosen_edges, in_counter, df_in_deg>>

Download ==
    /\ pc = "download"
    /\ st' = Append(st, Shown("Download Edges CSV", Len(edges_prob)))
    /\ pc' = "done"
    /\ UNCHANGED <<inputs, faction_info, personas, faction_sizes, max_tw,
                   edges_prob, i, u, chosen_edges, in_counter, df_in_deg, df_in>>

----------------------------------------------------------------------------
(* The inputs of a run *)

FactionRow(name, ignore, label, high, mod, never) ==
    [Faction |-> name, Ignore |-> ignore, IntraFaction |-> label,
     Following |-> high, MayFollow |-> mod, NeverFollow |-> never]

\* a sheet of at most MaxPersonas rows, each of one of the kinds; the handle of
\* a row is its position, so handles are unique
PersonaSheets(kinds) ==
    UNION {{[k \in 1..n |-> [Handle |-> k, Faction |-> c[k][1], TwFollowers |-> c[k][2]]] :
                c \in [1..n -> kinds]} : n \in 0..MaxPersonas}

InitWith(sheetsF, sheetsP, alphas, exponents, modes) ==
    /\ df_factions \in sheetsF
    /\ df_personas \in sheetsP
    /\ alpha \in alphas
    /\ exponent \in exponents
    /\ do_random_draw \in modes
    /\ pc = "factions"
    /\ faction_info = NoMap
    /\ personas = <<>>
    /\ faction_sizes = NoMap
    /\ max_tw = 0
    /\ edges_prob = <<>>
    /\ i = 0
    /\ u = 0
    /\ chosen_edges = <<>>
    /\ in_counter = NoMap
    /\ df_in_deg = <<>>
    /\ df_in = <<>>
    /\ st = <<>>

\* Runs with the draw: Red is a faction of celebrities that follow each other
\* and (in one sheet) follow Blue; Grey is ignored; Ghost is in no sheet
DrawFactionSheets ==
    {<<FactionRow("Red", 0, "High", {}, {}, {}),
       FactionRow("Blue", 0, "None", high, {}, {}),
       FactionRow("Grey", 1, "High", {}, {}, {})>> : high \in {{}, {"Red"}}}

DrawPersonaKinds ==
    {<<"Red", MaxTw>>, <<"Blue", 0>>, <<"Grey", MaxTw>>, <<"Ghost", 0>>}

Init ==
    InitWith(DrawFactionSheets, PersonaSheets(DrawPersonaKinds),
             {ONE \div 2, ONE}, {0, 1}, BOOLEAN)

Next ==
    \/ ParseFactions
    \/ ParsePersonas
    \/ ReportCount
    \/ Stop
    \/ BuildLookups
    \/ ComputeEdges
    \/ StartDraw
    \/ DrawEdge
    \/ EndDraw
    \/ InDegreeTable
    \/ ShowProb
    \/ ExpectedInDegree
    \/ Download

Spec == Init /\ [][Next]_vars

\* Runs without the draw, over every arrangement of the cross-faction lists of
\* Blue, the slider positions and the popularities
ProbFactionSheets ==
    {<<FactionRow("Red", 0, "Low", {}, {"Blue"}, {}),
       FactionRow("Blue", 0, "Unknown", high, mod, never)>> :
        high \in SUBSET {"Red"}, mod \in SUBSET {"Red"}, never \in SUBSET {"Red"}}

\* Red personas of no, little or the largest popularity, Blue personas of none
ProbPersonaKinds == ({"Red"} \X {0, 1, MaxTw}) \cup {<<"Blue", 0>>}

InitProb ==
    InitWith(ProbFactionSheets, PersonaSheets(ProbPersonaKinds),
             {0, ONE \div 2, ONE}, {0, 1, 2}, {FALSE})

NextProb ==
    \/ ParseFactions
    \/ ParsePersonas
    \/ ReportCount
    \/ Stop
    \/ BuildLookups
    \/ ComputeEdges
    \/ ShowProb
    \/ ExpectedInDegree
    \/ Download

SpecProb == InitProb /\ [][NextProb]_vars

----------------------------------------------------------------------------
(* Vocabulary of the properties *)

Edges == {edges_prob[k] : k \in DOMAIN edges_prob}

Chosen == {chosen_edges[k] : k \in DOMAIN chosen_edges}

\* the draw loop and the table after it are over
DrawOver == do_random_draw /\ pc \in {"in_deg", "download", "done"}

\* the edge probabilities have been computed
EdgesComputed == pc \in {"branch", "draw", "in_deg", "expected", "download", "done"}

\* in-degree of the persona h in the realized graph
ActualInDegree(h) == Cardinality({k \in DOMAIN chosen_edges : chosen_edges[k].target = h})

CrossFaction(e) == handle2fac[e.source] # handle2fac[e.target]

\* the faction size that the scaling of the edge e looks at
SourceSize(e) == faction_sizes[handle2fac[e.source]]

OneRowPerPersona(t) ==
    /\ Len(t) = Len(personas)
    /\ \A h \in Handles : Cardinality({k \in DOMAIN t : t[k].handle = h}) = 1

PositionOf(h) == CHOOSE k \in DOMAIN personas : personas[k].handle = h

----------------------------------------------------------------------------
(* C1 *)

----------------------------------------------------------------------------
(* C2 *)

\* C2: p_celeb, p_faction_scaled and p_final of every computed edge lie in
\* [0, 1].
C2_ProbabilityBounds ==
    \A e \in Edges :
        /\ 0 <= e.p_celeb /\ e.p_celeb <= ONE
        /\ 0 <= e.p_faction_scaled /\ e.p_faction_scaled <= ONE
        /\ 0 <= e.p_final /\ e.p_final <= ONE

\* a population whose edges reach both ends of the interval and its inside,
\* with a scaled faction component
C2_Witness ==
    /\ pc = "done"
    /\ \E e \in Edges : e.p_final = 0
    /\ \E e \in Edges : e.p_final = ONE
    /\ \E e \in Edges : 0 < e.p_faction_scaled /\ e.p_faction_scaled < e.p_faction_raw
                        /\ e.p_celeb > 0 /\ e.p_final < ONE

----------------------------------------------------------------------------
(* C3 *)

\* C3: no edge from a persona to itself is in the computed edge list or in the
\* realized edge list.
C3_NoSelfEdge ==
    /\ \A e \in Edges : e.source # e.target
    /\ \A e \in Chosen : e.source # e.target

\* a run that computed edges for three personas and realized some
C3_Witness ==
    /\ pc = "done"
    /\ Len(personas) = 3
    /\ Len(edges_prob) = 6
    /\ chosen_edges # <<>>

----------------------------------------------------------------------------
(* C4 *)

\* C4: for an edge between personas of different factions A and B, the base
\* affinity is read off B's lists in the order never, high, moderate, unlisted:
\* 0.0, 0.9, 0.5, 0.0.
C4_AffinityPrecedence ==
    \A e \in Edges :
        CrossFaction(e) =>
            LET fA    == handle2fac[e.source]
                infoB == faction_info[handle2fac[e.target]]
            IN  /\ fA \in infoB.fNever => e.p_faction_raw = 0
                /\ (fA \notin infoB.fNever /\ fA \in infoB.fHigh) =>
                       e.p_faction_raw = (9 * ONE) \div 10
                /\ (fA \notin infoB.fNever /\ fA \notin infoB.fHigh /\ fA \in infoB.fMod) =>
                       e.p_faction_raw = (5 * ONE) \div 10
                /\ (fA \notin infoB.fNever /\ fA \notin infoB.fHigh /\ fA \notin infoB.fMod) =>
                       e.p_faction_raw = 0

\* a faction listed as never, high and moderate at once by the faction of the
\* target, the edge computed
C4_Witness ==
    /\ EdgesComputed
    /\ \E e \in Edges :
        /\ CrossFaction(e)
        /\ handle2fac[e.source] \in faction_info[handle2fac[e.target]].fNever
        /\ handle2fac[e.source] \in faction_info[handle2fac[e.target]].fHigh
        /\ handle2fac[e.source] \in faction_info[handle2fac[e.target]].fMod
        /\ e.p_faction_raw = 0

----------------------------------------------------------------------------
(* C5 *)

\* C5 as stated: for a pair of personas of different factions the faction
\* component that enters the union is the unscaled cross-faction value.  The
\* program scales by the size of the follower's faction whichever faction the
\* target is in.
C5_CrossFactionUnscaled ==
    \A e \in Edges : CrossFaction(e) => e.p_faction_scaled = e.p_faction_raw

\* C5 amended: for a pair of different factions the faction component is the
\* cross-faction value divided by (size of the follower's faction) ^ exponent
\* when that faction has more than one persona, the exponent is > 0 and the
\* value is > 0 (so it is strictly smaller, and value / size at exponent 1.0);
\* it is the unscaled value in every other case.
C5_CrossFactionScaledBySourceSize ==
    \A e \in Edges :
        CrossFaction(e) =>
            IF SourceSize(e) > 1 /\ exponent > 0 /\ e.p_faction_raw > 0
            THEN /\ e.p_faction_scaled < e.p_faction_raw
                 /\ exponent = 2 => e.p_faction_scaled = e.p_faction_raw \div SourceSize(e)
                 /\ exponent = 1 =>
                        /\ e.p_faction_scaled * e.p_faction_scaled * SourceSize(e)
                               <= e.p_faction_raw * e.p_faction_raw
                        /\ (e.p_faction_scaled + 1) * (e.p_faction_scaled + 1) * SourceSize(e)
                               > e.p_faction_raw * e.p_faction_raw
            ELSE e.p_faction_scaled = e.p_faction_raw

\* a follower from a faction of two or more, listed by the target's faction,
\* with the exponent at 1.0: the cross-faction value is divided
C5_Witness ==
    /\ EdgesComputed
    /\ exponent = 2
    /\ \E e \in Edges :
        /\ CrossFaction(e)
        /\ SourceSize(e) >= 2
        /\ e.p_faction_raw = (9 * ONE) \div 10
        /\ e.p_faction_scaled = e.p_faction_raw \div SourceSize(e)

----------------------------------------------------------------------------
(* C6 *)

\* intra_prob divided by size ^ exponent, as a faction of that size has it
IntraAt(intra_prob, size) ==
    IF size > 1 /\ exponent > 0 THEN (intra_prob * ONE) \div Power(size, exponent)
    ELSE intra_prob

\* C6: for a pair inside a faction with intra_prob > 0, the scaled affinity is
\* the unscaled intra_prob when the exponent is 0, and with an exponent > 0 it
\* is strictly below what a faction of one persona fewer has; an edge whose
\* follower is alone in its faction is never scaled.
C6_IntraScalingMonotone ==
    \A f \in DOMAIN faction_sizes :
        LET size  == faction_sizes[f]
            intra == faction_info[f].intra_prob
            fewer == IF size > 1 THEN IntraAt(intra, size - 1) ELSE intra
        IN  \A e \in Edges :
                handle2fac[e.source] = f =>
                    /\ size = 1 => e.p_faction_scaled = e.p_faction_raw
                    /\ (handle2fac[e.target] = f /\ intra > 0) =>
                           /\ e.p_faction_raw = intra
                           /\ exponent = 0 => e.p_faction_scaled = intra
                           /\ exponent > 0 => e.p_faction_scaled < fewer

\* a faction of three with intra_prob > 0 and the exponent at 0.5
C6_Witness ==
    /\ EdgesComputed
    /\ exponent = 1
    /\ \E e \in Edges :
        /\ ~CrossFaction(e)
        /\ SourceSize(e) = 3
        /\ e.p_faction_raw > 0
        /\ e.p_faction_scaled < IntraAt(e.p_faction_raw, 2)
        /\ IntraAt(e.p_faction_raw, 2) < e.p_faction_raw

----------------------------------------------------------------------------
(* C7 *)

\* C7: the realized edge list never holds two edges with the same source and
\* target.
C7_NoDuplicateEdge ==
    \A j, k \in DOMAIN chosen_edges :
        (chosen_edges[j].source = chosen_edges[k].source
            /\ chosen_edges[j].target = chosen_edges[k].target) => j = k

\* every edge of three personas realized
C7_Witness ==
    /\ pc = "done"
    /\ Len(chosen_edges) = 6

----------------------------------------------------------------------------
(* C8 *)

Descending(t, by) ==
    \A j, k \in DOMAIN t : j < k => by[t[j].handle] >= by[t[k].handle]

InputOrderAmongEqual(t, by) ==
    \A j, k \in DOMAIN t :
        (j < k /\ by[t[j].handle] = by[t[k].handle]) =>
            PositionOf(t[j].handle) < PositionOf(t[k].handle)

ExpectedByHandle == [h \in Handles |-> InSum(edges_prob, h)]

ActualTableShown == do_random_draw /\ pc \in {"download", "done"}

ExpectedTableShown == ~do_random_draw /\ pc \in {"download", "done"}

\* C8 as stated: each table has one row per persona, in descending order of
\* the degree, personas of equal degree in the order of the input.  The sort
\* of the program is not a stable one.
C8_StableRanking ==
    /\ ActualTableShown =>
           /\ OneRowPerPersona(df_in_deg)
           /\ Descending(df_in_deg, in_counter)
           /\ InputOrderAmongEqual(df_in_deg, in_counter)
    /\ ExpectedTableShown =>
           /\ OneRowPerPersona(df_in)
           /\ Descending(df_in, ExpectedByHandle)
           /\ InputOrderAmongEqual(df_in, ExpectedByHandle)

\* C8 amended: each table has one row per persona, carrying that persona's
\* degree, in descending order of the degree; the order among personas of
\* equal degree is not determined.
C8_DescendingRanking ==
    /\ ActualTableShown =>
           /\ OneRowPerPersona(df_in_deg)
           /\ \A k \in DOMAIN df_in_deg :
                  df_in_deg[k].in_degree = in_counter[df_in_deg[k].handle]
           /\ \A j, k \in DOMAIN df_in_deg :
                  j < k => df_in_deg[j].in_degree >= df_in_deg[k].in_degree
    /\ ExpectedTableShown =>
           /\ OneRowPerPersona(df_in)
           /\ \A k \in DOMAIN df_in :
                  df_in[k].expected_in_degree = InSum(edges_prob, df_in[k].handle)
           /\ \A j, k \in DOMAIN df_in :
                  j < k => df_in[j].expected_in_degree >= df_in[k].expected_in_degree

\* an actual in-degree table of three rows that had to be reordered
C8_Witness ==
    /\ ActualTableShown
    /\ Len(df_in_deg) = 3
    /\ df_in_deg[1].in_degree > df_in_deg[3].in_degree
    /\ df_in_deg[1].handle # personas[1].handle

----------------------------------------------------------------------------
(* C9 *)

\* C9: with no persona left after the filter the run stops right after the
\* count is written: nothing else is written or computed, no error is raised,
\* and no run gets past the count without a persona.
C9_EmptyPopulationStops ==
    /\ pc # "error"
    /\ pc = "stopped" =>
           /\ personas = <<>>
           /\ st = <<Shown("Total personas after ignoring", 0)>>
           /\ max_tw = 0
           /\ faction_sizes = NoMap
           /\ edges_prob = <<>>
           /\ chosen_edges = <<>>
           /\ in_counter = NoMap
           /\ df_in_deg = <<>>
           /\ df_in = <<>>
    /\ (personas = <<>> /\ pc \notin {"factions", "personas", "count", "check"}) =>
           pc = "stopped"
    /\ pc \in {"edges", "branch", "draw", "in_deg", "expected", "download", "done"} =>
           max_tw >= 1

\* a sheet of three personas, each of an ignored or an unknown faction
C9_Witness ==
    /\ pc = "stopped"
    /\ Len(df_personas) = 3
    /\ \E k \in DOMAIN df_personas : df_personas[k].Faction \in DOMAIN faction_info
    /\ \E k \in DOMAIN df_personas : df_personas[k].Faction \notin DOMAIN faction_info

----------------------------------------------------------------------------
(* C10 *)

\* the edges the draw loop has gone through
Drawn == {edges_prob[k] : k \in 1..(i - 1)}

IsChosen(e) == e \in Chosen

\* C10: the draw loop goes through the computed edges one by one; the edge it
\* has just gone through was put in the realized list if and only if the draw
\* was strictly below its probability; the realized edges are computed edges
\* the loop has gone through, each once and in that order; none has
\* probability 0, and every edge of probability 1 gone through is realized;
\* the counter of a persona is the number of realized edges into it.
C10_BernoulliDraw ==
    (pc = "draw" \/ DrawOver) =>
        /\ i \in 1..(Len(edges_prob) + 1)
        /\ DrawOver => i = Len(edges_prob) + 1
        /\ (pc = "draw" /\ i > 1) =>
               ((u < edges_prob[i - 1].p_final) <=>
                    (chosen_edges # <<>> /\ Last(chosen_edges) = edges_prob[i - 1]))
        /\ chosen_edges = SelectSeq(SubSeq(edges_prob, 1, i - 1), IsChosen)
        /\ \A e \in Chosen : e.p_final > 0
        /\ \A e \in Drawn : e.p_final = ONE => e \in Chosen
        /\ \A h \in Handles : in_counter[h] = ActualInDegree(h)

\* the loop is over for edges of probability 0, of probability 1 and between,
\* of which one was realized and one was not
C10_Witness ==
    /\ pc = "in_deg"
    /\ \E e \in Edges : e.p_final = 0
    /\ \E e \in Edges : e.p_final = ONE
    /\ \E e \in Edges : 0 < e.p_final /\ e.p_final < ONE /\ e \in Chosen
    /\ \E e \in Edges : 0 < e.p_final /\ e.p_final < ONE /\ e \notin Chosen

====
